---- MODULE Spec2Model ----
(***************************************************************************)
(* Model of cluster-agent: the MCP client/orchestrator (src/client.py)     *)
(* and the kubectl tool provider (src/kubectl_mcp.py).                     *)
(*                                                                         *)
(* Conventions.  A Python Optional value is a sequence of length 0 or 1:   *)
(* None is <<>> and a present value x is <<x>>.  A Python string that is   *)
(* taken apart or put together (joined, stripped, formatted) is a sequence *)
(* of one-character or one-token strings, so "" is <<>> as a string.       *)
(***************************************************************************)
EXTENDS Integers, Sequences, FiniteSets, TLC

VARIABLES
    \* ---- MCPClient (src/client.py:23-79)
    session,        \* self.session: None or <<id>> of the ClientSession
    tools,          \* self.tools: the cached list of tool descriptors
    exit_stack,     \* self.exit_stack: resources entered, oldest first
    live,           \* resources acquired and not yet released (the OS's view)
    nconn,          \* number of connect_to_server calls made so far
    everConnected,  \* history: some connect_to_server has completed successfully
    connState,      \* history: the lifecycle state the specification describes
    lastOp,         \* history: the last client operation, its outcome and I/O
    \* ---- main (src/client.py:141-159)
    pc,             \* position of main
    openai_tools,   \* main's local `tools`
    response,       \* main's local `response`: None or <<ChatResponse>>
    idx,            \* position of the for loop over tool_calls
    chatLog,        \* chat requests sent to the model, each with ollama's reply
    callLog,        \* tools/call requests forwarded to the provider by main
    resultLog,      \* the result contents the provider returned to main
    printed,        \* what main printed
    exc,            \* the exception main ended with: None or <<kind>>
    closeRuns,      \* number of times close ran in main
    inflight,       \* tools/call requests sent whose result main still awaits
    \* ---- format_tools (src/client.py:109-125)
    mcp_tools,      \* the list given to format_tools
    formatted,      \* None before get_openai_tools ran on it, then <<its outcome>>
    \* ---- the tool provider (src/kubectl_mcp.py), serving one request
    request,        \* None or <<the tool request: tool name and argument object>>
    proc,           \* None or <<what subprocess.run did>>
    executed,       \* the commands handed to subprocess.run
    cmd_result,     \* None or <<what run_command_helper returned>>
    tool_reply,     \* None or <<what the handler returned to the caller>>
    \* ---- get_kubectl_tools (src/client.py:89-106)
    kubectl_tools   \* None before the call, then <<how it went and its outcome>>

cvars == <<session, tools, exit_stack, live, nconn, everConnected, connState, lastOp>>
mvars == <<pc, openai_tools, response, idx, chatLog, callLog, resultLog, printed, exc,
          closeRuns, inflight>>
fvars == <<mcp_tools, formatted>>
pvars == <<request, proc, executed, cmd_result, tool_reply>>
dvars == <<kubectl_tools>>
vars == <<session, tools, exit_stack, live, nconn, everConnected, connState, lastOp,
          pc, openai_tools, response, idx, chatLog, callLog, resultLog, printed, exc,
          closeRuns, inflight,
          mcp_tools, formatted, request, proc, executed, cmd_result, tool_reply,
          kubectl_tools>>

-----------------------------------------------------------------------------
(* Bounds *)

MaxConnects == 2    \* connect_to_server calls per client
MaxTools == 3       \* tool descriptors in one list
MaxBlocks == 3      \* content blocks in one tool result
MaxCalls == 2       \* tool-call requests in one chat response

-----------------------------------------------------------------------------
(* Values *)

None == <<>>
Some(x) == <<x>>

NL == "\n"

Reverse(s) == [i \in 1..Len(s) |-> s[Len(s) + 1 - i]]

SeqsUpTo(S, n) == UNION {[1..k -> S] : k \in 0..n}

\* Tool descriptors as the provider advertises them (mcp.types.Tool): name,
\* optional description, input schema.
GetTool(d) ==
    [name |-> "kubectl_get_resource", description |-> d, inputSchema |-> "schema_get"]
DescribeTool ==
    [name |-> "kubectl_describe_resource", description |-> None,
     inputSchema |-> "schema_describe"]
ToolNames == {"kubectl_get_resource", "kubectl_describe_resource"}
Descriptions == {None, Some(""), Some("Display resources")}
MCPTools == {GetTool(d) : d \in Descriptions} \cup {DescribeTool}

\* Result content blocks: TextContent carries `text`, ImageContent does not.
Texts == {<<>>, <<"a">>, <<"b">>}
TextContent(t) == [type |-> "text", text |-> t]
ImageContent == [type |-> "image", data |-> "png"]
ContentBlocks == {TextContent(t) : t \in Texts} \cup {ImageContent}

ArgMaps == {"{}", "{resource: nodes}"}

-----------------------------------------------------------------------------
(* Requests on the wire to the provider *)

InitializeRequest == [method |-> "initialize"]
ListToolsRequest == [method |-> "tools/list"]
CallToolRequest(name, arguments) ==
    [method |-> "tools/call", name |-> name, arguments |-> arguments]

\* The record of one client operation: which one, how it ended ("ok",
\* "NotConnected" for RuntimeError("Not connected to a server"), "raised" for
\* an error of the transport or the provider), the requests it sent, the
\* content the provider returned, the value it returned, what it released.
Op(op, outcome, sent, content, ret, released) ==
    [op |-> op, outcome |-> outcome, sent |-> sent, content |-> content,
     ret |-> ret, released |-> released]

-----------------------------------------------------------------------------
(* MCPClient *)

\* A join that ends every part with the separator instead of putting it between.
RECURSIVE JoinTrailingNL(_)
JoinTrailingNL(parts) ==
    IF parts = <<>> THEN <<>>
    ELSE parts[1] \o <<NL>> \o JoinTrailingNL(Tail(parts))

\* "\n".join(content_parts)
RECURSIVE JoinNL(_)
JoinNL(parts) ==
    IF parts = <<>> THEN <<>>
    ELSE IF Len(parts) = 1 THEN parts[1]
    ELSE parts[1] \o <<NL>> \o JoinNL(Tail(parts))

\* The loop of call_tool: the text of every block that has a `text` attribute.
RECURSIVE ContentParts(_)
ContentParts(content) ==
    IF content = <<>> THEN <<>>
    ELSE (IF "text" \in DOMAIN content[1] THEN <<content[1].text>> ELSE <<>>)
         \o ContentParts(Tail(content))

StdioResource(id) == [kind |-> "stdio_client", id |-> id]
SessionResource(id) == [kind |-> "ClientSession", id |-> id]

ClientInit ==
    /\ session = None
    /\ tools = <<>>
    /\ exit_stack = <<>>
    /\ live = {}
    /\ nconn = 0
    /\ everConnected = FALSE
    /\ connState = "Unconnected"
    /\ lastOp = Op("__init__", "ok", <<>>, <<>>, <<>>, <<>>)

\* A refresh that does not look at the session handle.
refresh_tools_unchecked(listed) ==
    IF listed = None
    THEN /\ lastOp' = Op("refresh_tools", "raised", <<ListToolsRequest>>, <<>>, <<>>, <<>>)
         /\ UNCHANGED <<session, tools, exit_stack, live, nconn, everConnected, connState>>
    ELSE /\ tools' = listed[1]
         /\ lastOp' = Op("refresh_tools", "ok", <<ListToolsRequest>>, <<>>, <<>>, <<>>)
         /\ UNCHANGED <<session, exit_stack, live, nconn, everConnected, connState>>

\* refresh_tools: `listed` is the provider's answer to tools/list, None when
\* the request fails.
refresh_tools(listed) ==
    IF session = None
    THEN /\ lastOp' = Op("refresh_tools", "NotConnected", <<>>, <<>>, <<>>, <<>>)
         /\ UNCHANGED <<session, tools, exit_stack, live, nconn, everConnected, connState>>
    ELSE IF listed = None
    THEN /\ lastOp' = Op("refresh_tools", "raised", <<ListToolsRequest>>, <<>>, <<>>, <<>>)
         /\ UNCHANGED <<session, tools, exit_stack, live, nconn, everConnected, connState>>
    ELSE /\ tools' = listed[1]
         /\ lastOp' = Op("refresh_tools", "ok", <<ListToolsRequest>>, <<>>, <<>>, <<>>)
         /\ UNCHANGED <<session, exit_stack, live, nconn, everConnected, connState>>

\* connect_to_server: `fails` names the await that raises ("launch" for
\* stdio_client, "initialize" for the handshake, "refresh" for the tool
\* listing, "none" when all succeed); `listed` is the provider's tool list.
connect_to_server(fails, listed) ==
    /\ nconn < MaxConnects
    /\ nconn' = nconn + 1
    /\ LET id == nconn + 1 IN
       IF fails = "launch"
       THEN /\ lastOp' = Op("connect_to_server", "raised", <<>>, <<>>, <<>>, <<>>)
            /\ UNCHANGED <<session, tools, exit_stack, live, everConnected, connState>>
       ELSE /\ exit_stack' = exit_stack \o <<StdioResource(id), SessionResource(id)>>
            /\ live' = live \cup {StdioResource(id), SessionResource(id)}
            /\ session' = Some(id)
            /\ IF fails = "initialize"
               THEN /\ lastOp' = Op("connect_to_server", "raised",
                                    <<InitializeRequest>>, <<>>, <<>>, <<>>)
                    /\ UNCHANGED <<tools, everConnected, connState>>
               ELSE IF fails = "refresh"
               THEN /\ lastOp' = Op("connect_to_server", "raised",
                                    <<InitializeRequest, ListToolsRequest>>,
                                    <<>>, <<>>, <<>>)
                    /\ UNCHANGED <<tools, everConnected, connState>>
               ELSE /\ tools' = listed
                    /\ everConnected' = TRUE
                    /\ connState' = "Connected"
                    /\ lastOp' = Op("connect_to_server", "ok",
                                    <<InitializeRequest, ListToolsRequest>>,
                                    <<>>, <<>>, <<>>)

\* call_tool: `result` is the provider's answer, None when the request fails,
\* else <<content>>.
call_tool(tool_name, arguments, result) ==
    IF session = None
    THEN /\ lastOp' = Op("call_tool", "NotConnected", <<>>, <<>>, <<>>, <<>>)
         /\ UNCHANGED <<session, tools, exit_stack, live, nconn, everConnected, connState>>
    ELSE /\ lastOp' =
              IF result = None
              THEN Op("call_tool", "raised", <<CallToolRequest(tool_name, arguments)>>,
                      <<>>, <<>>, <<>>)
              ELSE Op("call_tool", "ok", <<CallToolRequest(tool_name, arguments)>>,
                      result[1], JoinNL(ContentParts(result[1])), <<>>)
         /\ UNCHANGED <<session, tools, exit_stack, live, nconn, everConnected, connState>>

\* A close that clears the handles and forgets exit_stack.aclose().
close_leaks ==
    /\ session' = None
    /\ tools' = <<>>
    /\ connState' = "Unconnected"
    /\ lastOp' = Op("close", "ok", <<>>, <<>>, <<>>, <<>>)
    /\ UNCHANGED <<exit_stack, live, nconn, everConnected>>

\* A close that releases and clears the session handle but keeps the tool cache.
close_keeps_tools ==
    /\ live' = live \ {exit_stack[i] : i \in 1..Len(exit_stack)}
    /\ exit_stack' = <<>>
    /\ session' = None
    /\ connState' = "Unconnected"
    /\ lastOp' = Op("close", "ok", <<>>, <<>>, <<>>, Reverse(exit_stack))
    /\ UNCHANGED <<tools, nconn, everConnected>>

\* A close that leaves only the contexts of the latest connect.
close_newest_only ==
    LET n == Len(exit_stack)
        kept == IF n > 2 THEN SubSeq(exit_stack, 1, n - 2) ELSE <<>>
        left == IF n > 2 THEN SubSeq(exit_stack, n - 1, n) ELSE exit_stack IN
    /\ live' = live \ {left[i] : i \in 1..Len(left)}
    /\ exit_stack' = <<>>
    /\ session' = None
    /\ tools' = <<>>
    /\ connState' = "Unconnected"
    /\ lastOp' = Op("close", "ok", <<>>, <<>>, <<>>, Reverse(left))
    /\ UNCHANGED <<nconn, everConnected>>

\* close: exit_stack.aclose() leaves the entered contexts newest first, then
\* the session handle and the tool cache are cleared.
close ==
    /\ live' = live \ {exit_stack[i] : i \in 1..Len(exit_stack)}
    /\ exit_stack' = <<>>
    /\ session' = None
    /\ tools' = <<>>
    /\ connState' = "Unconnected"
    /\ lastOp' = Op("close", "ok", <<>>, <<>>, <<>>, Reverse(exit_stack))
    /\ UNCHANGED <<nconn, everConnected>>

-----------------------------------------------------------------------------
(* format_tools and get_openai_tools *)

\* A descriptor is a record of the attributes the object has; reading an
\* attribute it lacks raises AttributeError.
ToolAttrs == {"name", "description", "inputSchema"}

\* A conversion that copies the description as it is, absent when absent.
ConvertToolRawDescription(tool) ==
    IF ToolAttrs \subseteq DOMAIN tool
    THEN Some([type |-> "function",
               function |-> [name |-> tool.name,
                             description |-> tool.description,
                             parameters |-> tool.inputSchema]])
    ELSE None

\* OpenAITool(function = {...}) of lines 114-120: None when building it raises.
\* `tool.description or ""` turns None (and "") into "".
ConvertTool(tool) ==
    IF ToolAttrs \subseteq DOMAIN tool
    THEN Some([type |-> "function",
               function |-> [name |-> tool.name,
                             description |-> IF tool.description \in {None, Some("")}
                                             THEN Some("")
                                             ELSE tool.description,
                             parameters |-> tool.inputSchema]])
    ELSE None

\* The loop of format_tools from position i with `acc` formatted and `errs`
\* logged so far.  The except clause formats tool.name into its message, which
\* raises again, out of format_tools, when the object has no name.
RECURSIVE FormatLoop(_, _, _, _)
FormatLoop(list, i, acc, errs) ==
    IF i > Len(list) THEN [raised |-> FALSE, value |-> acc, errors |-> errs]
    ELSE LET conv == ConvertTool(list[i]) IN
         IF conv # None THEN FormatLoop(list, i + 1, acc \o conv, errs)
         ELSE IF "name" \in DOMAIN list[i]
         THEN FormatLoop(list, i + 1, acc, Append(errs, list[i].name))
         ELSE [raised |-> TRUE, value |-> <<>>, errors |-> errs]

format_tools(list) == FormatLoop(list, 1, <<>>, <<>>)

\* OpenAITool.model_dump(): the dict of the model's two fields.
ModelDump(t) == [type |-> t.type, function |-> t.function]

\* MCPClient.get_openai_tools
get_openai_tools(cached) ==
    LET r == format_tools(cached) IN
    IF r.raised THEN r
    ELSE [raised |-> FALSE,
          value |-> [i \in 1..Len(r.value) |-> ModelDump(r.value[i])],
          errors |-> r.errors]

-----------------------------------------------------------------------------
(* chat_with_tool *)

Raised == [raised |-> TRUE]
Returned(v) == [raised |-> FALSE, value |-> v]

\* A chat_with_tool without its try/except: the error of ollama.chat propagates.
chat_with_tool_propagates(reply) ==
    IF reply.raised THEN Raised ELSE Returned(Some(reply.value))

\* `reply` is the outcome of ollama.chat: Raised or Returned(response).
chat_with_tool(reply) ==
    IF reply.raised THEN Returned(None) ELSE Returned(Some(reply.value))

-----------------------------------------------------------------------------
(* main *)

ModelName == "mistral-nemo:latest"
Messages ==
    <<[role |-> "user", content |-> "Show me what nodes are in my kubernetes cluster"]>>

ToolCall(n, a) == [function |-> [name |-> n, arguments |-> a]]
ToolCalls == {ToolCall(n, a) : n \in ToolNames, a \in ArgMaps}
ChatResponse(c, tc) == [message |-> [content |-> c, tool_calls |-> tc]]
ChatResponses ==
    {ChatResponse("The cluster has 3 nodes", tc) :
        tc \in {None} \cup {Some(s) : s \in SeqsUpTo(ToolCalls, MaxCalls)}}
OllamaReplies == {Raised} \cup {Returned(r) : r \in ChatResponses}

\* The lists the provider answers tools/list with, and the results it answers
\* tools/call with, in the client's runs.
ListedTools == {GetTool(Some("Display resources")), DescribeTool}
ProviderLists == SeqsUpTo(ListedTools, MaxTools)
ProviderContents ==
    {<<>>,
     <<TextContent(<<"a">>)>>,
     <<TextContent(<<"a">>), ImageContent, TextContent(<<"b">>)>>}

ConnectChoices ==
    {[fails |-> f, listed |-> <<>>] : f \in {"launch", "initialize", "refresh"}}
    \cup {[fails |-> "none", listed |-> l] : l \in ProviderLists}

\* response.message.tool_calls of line 152, the empty list when the test is false.
RequestedCalls ==
    IF response # None /\ response[1].message.tool_calls # None
    THEN response[1].message.tool_calls[1]
    ELSE <<>>

MainLocals(p) ==
    /\ pc = p
    /\ openai_tools = <<>>
    /\ response = None
    /\ idx = 0
    /\ chatLog = <<>>
    /\ callLog = <<>>
    /\ resultLog = <<>>
    /\ printed = <<>>
    /\ exc = None
    /\ closeRuns = 0
    /\ inflight = <<>>

FormatIdle == mcp_tools = <<>> /\ formatted = None

DiscoveryIdle == kubectl_tools = None

ProviderIdle ==
    /\ request = None
    /\ proc = None
    /\ executed = <<>>
    /\ cmd_result = None
    /\ tool_reply = None

\* line 145
MainConnect ==
    /\ pc = "start"
    /\ \E c \in ConnectChoices : connect_to_server(c.fails, c.listed)
    /\ IF lastOp'.outcome = "ok"
       THEN pc' = "format" /\ exc' = exc
       ELSE pc' = "exit" /\ exc' = Some("connect_to_server")
    /\ UNCHANGED <<openai_tools, response, idx, chatLog, callLog, resultLog, printed, closeRuns>>
    /\ UNCHANGED fvars
    /\ UNCHANGED dvars
    /\ UNCHANGED inflight
    /\ UNCHANGED pvars

\* line 147
MainFormat ==
    /\ pc = "format"
    /\ LET r == get_openai_tools(tools) IN
       IF r.raised
       THEN pc' = "exit" /\ exc' = Some("get_openai_tools") /\ UNCHANGED openai_tools
       ELSE pc' = "chat" /\ openai_tools' = r.value /\ UNCHANGED exc
    /\ UNCHANGED <<response, idx, chatLog, callLog, resultLog, printed, closeRuns>>
    /\ UNCHANGED cvars
    /\ UNCHANGED fvars
    /\ UNCHANGED dvars
    /\ UNCHANGED inflight
    /\ UNCHANGED pvars

\* lines 149-150
MainChat ==
    /\ pc = "chat"
    /\ \E reply \in OllamaReplies :
          LET r == chat_with_tool(reply) IN
          /\ chatLog' = Append(chatLog, [model |-> ModelName, messages |-> Messages,
                                         tools |-> openai_tools, reply |-> reply])
          /\ IF r.raised
             THEN pc' = "exit" /\ exc' = Some("chat_with_tool") /\ UNCHANGED response
             ELSE pc' = "branch" /\ response' = r.value /\ UNCHANGED exc
    /\ UNCHANGED <<openai_tools, idx, callLog, resultLog, printed, closeRuns>>
    /\ UNCHANGED cvars
    /\ UNCHANGED fvars
    /\ UNCHANGED dvars
    /\ UNCHANGED inflight
    /\ UNCHANGED pvars

\* lines 152-153 and 158-159
MainBranch ==
    /\ pc = "branch"
    /\ IF RequestedCalls # <<>>
       THEN pc' = "loop" /\ idx' = 1 /\ UNCHANGED printed
       ELSE /\ pc' = "exit"
            /\ printed' = Append(printed, IF response # None
                                          THEN <<response[1].message.content>>
                                          ELSE <<"No response">>)
            /\ UNCHANGED idx
    /\ UNCHANGED <<openai_tools, response, chatLog, callLog, resultLog, exc, closeRuns>>
    /\ UNCHANGED cvars
    /\ UNCHANGED fvars
    /\ UNCHANGED dvars
    /\ UNCHANGED inflight
    /\ UNCHANGED pvars

\* A send that does not wait for the result before the loop goes on.
MainCallSendFanOut ==
    /\ pc = "loop"
    /\ idx <= Len(RequestedCalls)
    /\ LET sent_request == CallToolRequest(RequestedCalls[idx].function.name,
                                       RequestedCalls[idx].function.arguments) IN
       /\ inflight' = Append(inflight, sent_request)
       /\ callLog' = Append(callLog, sent_request)
    /\ idx' = idx + 1
    /\ UNCHANGED <<pc, openai_tools, response, chatLog, resultLog, printed, exc, closeRuns>>
    /\ UNCHANGED cvars
    /\ UNCHANGED fvars
    /\ UNCHANGED dvars
    /\ UNCHANGED pvars

\* lines 154-155, down to the await of session.call_tool (line 60): with a
\* session handle the tools/call request goes out and main is suspended until
\* its result arrives; without one call_tool raises before sending.
MainCallSend ==
    /\ pc = "loop"
    /\ idx <= Len(RequestedCalls)
    /\ LET tool_name == RequestedCalls[idx].function.name
           arguments == RequestedCalls[idx].function.arguments IN
       IF session = None
       THEN /\ call_tool(tool_name, arguments, None)
            /\ pc' = "exit"
            /\ exc' = Some("call_tool")
            /\ UNCHANGED <<inflight, callLog>>
       ELSE /\ inflight' = Append(inflight, CallToolRequest(tool_name, arguments))
            /\ callLog' = Append(callLog, CallToolRequest(tool_name, arguments))
            /\ pc' = "await"
            /\ UNCHANGED exc
            /\ UNCHANGED cvars
    /\ UNCHANGED <<openai_tools, response, idx, chatLog, resultLog, printed, closeRuns>>
    /\ UNCHANGED fvars
    /\ UNCHANGED dvars
    /\ UNCHANGED pvars

\* lines 60-67 and 155-157: the awaited request returns or raises; the result
\* is joined and printed, and the loop goes on to the next requested call.
MainCallReturn ==
    /\ pc = "await"
    /\ inflight # <<>>
    /\ LET tool_name == RequestedCalls[idx].function.name
           arguments == RequestedCalls[idx].function.arguments IN
       /\ \E r \in {None} \cup {Some(c) : c \in ProviderContents} :
             call_tool(tool_name, arguments, r)
       /\ inflight' = Tail(inflight)
       /\ IF lastOp'.outcome = "ok"
          THEN /\ resultLog' = Append(resultLog, lastOp'.content)
               /\ printed' = Append(printed,
                      <<"Tool ", tool_name, " result:", NL>> \o lastOp'.ret)
               /\ idx' = idx + 1
               /\ pc' = "loop"
               /\ UNCHANGED exc
          ELSE /\ pc' = "exit"
               /\ exc' = Some("call_tool")
               /\ UNCHANGED <<resultLog, printed, idx>>
    /\ UNCHANGED <<openai_tools, response, chatLog, callLog, closeRuns>>
    /\ UNCHANGED fvars
    /\ UNCHANGED dvars
    /\ UNCHANGED pvars

\* A loop end that sends the tool results back to the model in another chat.
MainLoopEndRechat ==
    /\ pc = "loop"
    /\ idx > Len(RequestedCalls)
    /\ pc' = "chat"
    /\ UNCHANGED <<openai_tools, response, idx, chatLog, callLog, resultLog, printed, exc,
                   closeRuns>>
    /\ UNCHANGED cvars
    /\ UNCHANGED fvars
    /\ UNCHANGED dvars
    /\ UNCHANGED inflight
    /\ UNCHANGED pvars

\* the for loop is exhausted
MainLoopEnd ==
    /\ pc = "loop"
    /\ idx > Len(RequestedCalls)
    /\ pc' = "exit"
    /\ UNCHANGED <<openai_tools, response, idx, chatLog, callLog, resultLog, printed, exc,
                   closeRuns>>
    /\ UNCHANGED cvars
    /\ UNCHANGED fvars
    /\ UNCHANGED dvars
    /\ UNCHANGED inflight
    /\ UNCHANGED pvars

\* __aexit__ (lines 78-79): runs close and returns None, so that a pending
\* exception propagates out of main afterwards.
MainExit ==
    /\ pc = "exit"
    /\ close
    /\ closeRuns' = closeRuns + 1
    /\ pc' = "done"
    /\ UNCHANGED <<openai_tools, response, idx, chatLog, callLog, resultLog, printed, exc>>
    /\ UNCHANGED fvars
    /\ UNCHANGED dvars
    /\ UNCHANGED inflight
    /\ UNCHANGED pvars

InitMain ==
    ClientInit /\ MainLocals("start") /\ FormatIdle /\ ProviderIdle /\ DiscoveryIdle

NextMain ==
    \/ MainConnect
    \/ MainFormat
    \/ MainChat
    \/ MainBranch
    \/ MainCallSend
    \/ MainCallReturn
    \/ MainLoopEnd
    \/ MainExit

SpecMain == InitMain /\ [][NextMain]_vars

-----------------------------------------------------------------------------
(* Any sequence of operations on one MCPClient *)

Init == ClientInit /\ MainLocals("idle") /\ FormatIdle /\ ProviderIdle /\ DiscoveryIdle

DoConnect ==
    /\ \E c \in ConnectChoices : connect_to_server(c.fails, c.listed)
    /\ UNCHANGED mvars
    /\ UNCHANGED fvars
    /\ UNCHANGED dvars
    /\ UNCHANGED pvars

DoRefresh ==
    /\ \E listed \in {None} \cup {Some(l) : l \in ProviderLists} : refresh_tools(listed)
    /\ UNCHANGED mvars
    /\ UNCHANGED fvars
    /\ UNCHANGED dvars
    /\ UNCHANGED pvars

DoCallTool ==
    /\ \E n \in ToolNames, a \in ArgMaps,
          r \in {None} \cup {Some(c) : c \in ProviderContents} : call_tool(n, a, r)
    /\ UNCHANGED mvars
    /\ UNCHANGED fvars
    /\ UNCHANGED dvars
    /\ UNCHANGED pvars

DoClose ==
    close /\ UNCHANGED mvars /\ UNCHANGED fvars /\ UNCHANGED pvars /\ UNCHANGED dvars

Next == DoConnect \/ DoRefresh \/ DoCallTool \/ DoClose

Spec == Init /\ [][Next]_vars

-----------------------------------------------------------------------------
(* Tool discovery: refresh_tools on a client, and get_kubectl_tools *)

\* get_kubectl_tools: `fails` names the await that raises ("launch",
\* "initialize", "list_tools" or "none"); `listed` is the provider's tool list.
\* Only session.list_tools() is inside the try: its failure is logged and None
\* is returned; a failure before it propagates.  Both `async with` blocks have
\* released the process and the session when the function is left.
get_kubectl_tools(fails, listed) ==
    IF fails \in {"launch", "initialize"} THEN Raised
    ELSE IF fails = "list_tools" THEN Returned(None)
    ELSE Returned(Some(listed))

GetKubectlTools ==
    /\ kubectl_tools = None
    /\ \E c \in {[fails |-> f, listed |-> <<>>] : f \in {"launch", "initialize", "list_tools"}}
               \cup {[fails |-> "none", listed |-> l] : l \in ProviderLists} :
          kubectl_tools' = Some([fails |-> c.fails,
                                 outcome |-> get_kubectl_tools(c.fails, c.listed)])
    /\ UNCHANGED cvars
    /\ UNCHANGED mvars
    /\ UNCHANGED fvars
    /\ UNCHANGED pvars

NextDiscovery == DoConnect \/ DoRefresh \/ DoClose \/ GetKubectlTools

SpecDiscovery == Init /\ [][NextDiscovery]_vars

-----------------------------------------------------------------------------
(* call_tool on every result content the provider may return *)

Contents == SeqsUpTo(ContentBlocks, MaxBlocks)

CallConnect ==
    /\ \E f \in {"launch", "initialize", "refresh", "none"} :
          connect_to_server(f, <<DescribeTool>>)
    /\ UNCHANGED mvars
    /\ UNCHANGED fvars
    /\ UNCHANGED dvars
    /\ UNCHANGED pvars

CallAny ==
    /\ \E r \in {None} \cup {Some(c) : c \in Contents} :
          call_tool("kubectl_describe_resource", "{}", r)
    /\ UNCHANGED mvars
    /\ UNCHANGED fvars
    /\ UNCHANGED dvars
    /\ UNCHANGED pvars

NextCall == CallConnect \/ CallAny \/ DoClose

SpecCall == Init /\ [][NextCall]_vars

-----------------------------------------------------------------------------
(* get_openai_tools on every list of descriptors, well-formed or not *)

Without(tool, attr) == [a \in (DOMAIN tool) \ {attr} |-> tool[a]]

DuckTools ==
    MCPTools \cup {Without(t, a) : t \in {GetTool(None), DescribeTool}, a \in ToolAttrs}
DuckLists == SeqsUpTo(DuckTools, MaxTools)

InitFormat ==
    /\ ClientInit
    /\ MainLocals("idle")
    /\ mcp_tools \in DuckLists
    /\ formatted = None
    /\ ProviderIdle
    /\ DiscoveryIdle

Format ==
    /\ formatted = None
    /\ formatted' = Some(get_openai_tools(mcp_tools))
    /\ UNCHANGED mcp_tools
    /\ UNCHANGED cvars
    /\ UNCHANGED mvars
    /\ UNCHANGED pvars
    /\ UNCHANGED dvars

NextFormat == Format

SpecFormat == InitFormat /\ [][NextFormat]_vars

-----------------------------------------------------------------------------
(* The tool provider: CommandResult and run_command_helper *)

Str(token) == <<token>>
SP == " "

DefaultTimeout == 30

CommandResult(success, stdout, stderr, return_code, error_message) ==
    [success |-> success, stdout |-> stdout, stderr |-> stderr,
     return_code |-> return_code, error_message |-> error_message]

\* A command is a list of tokens or, against the helper's contract, one string.
ListCommand(tokens) == [kind |-> "list", tokens |-> tokens]
StrCommand(text) == [kind |-> "str", text |-> text]

\* What subprocess.run does with a command: it completes with an exit code and
\* the captured output, or raises TimeoutExpired, FileNotFoundError or another
\* exception.
Completed(returncode, stdout, stderr) ==
    [kind |-> "completed", returncode |-> returncode, stdout |-> stdout,
     stderr |-> stderr]
TimeoutExpired == [kind |-> "TimeoutExpired"]
FileNotFound == [kind |-> "FileNotFoundError"]
OtherError == [kind |-> "PermissionError", message |-> "Permission denied"]

\* A message that names the default timeout, whatever timeout was configured.
TimeoutMessageDefault(timeout_seconds) ==
    <<"Command timed out after ", ToString(DefaultTimeout), " seconds">>

\* f"Command timed out after {timeout_seconds} seconds"
TimeoutMessage(timeout_seconds) ==
    <<"Command timed out after ", ToString(timeout_seconds), " seconds">>

\* A helper without the catch-all handler of lines 123-130.
run_command_helper_uncaught(command, timeout_seconds, outcome) ==
    IF command.kind = "str"
    THEN [ran |-> <<>>,
          ret |-> Returned(CommandResult(FALSE, <<>>, <<>>, -1,
                    Some(Str("Security error: command must be a list, not a string"))))]
    ELSE [ran |-> <<command.tokens>>,
          ret |->
            IF outcome.kind = "completed"
            THEN Returned(CommandResult(outcome.returncode = 0, outcome.stdout,
                            outcome.stderr, outcome.returncode,
                            IF outcome.returncode # 0 THEN Some(outcome.stderr) ELSE None))
            ELSE IF outcome.kind = "TimeoutExpired"
            THEN Returned(CommandResult(FALSE, <<>>, <<>>, -1,
                            Some(TimeoutMessage(timeout_seconds))))
            ELSE IF outcome.kind = "FileNotFoundError"
            THEN Returned(CommandResult(FALSE, <<>>, <<>>, -1,
                            Some(Str("kubectl not found."))))
            ELSE Raised]

\* run_command_helper: `outcome` is what subprocess.run does.  `ran` holds the
\* command handed to subprocess.run, if any; `ret` is what the helper returns.
run_command_helper(command, timeout_seconds, outcome) ==
    IF command.kind = "str"
    THEN [ran |-> <<>>,
          ret |-> Returned(CommandResult(FALSE, <<>>, <<>>, -1,
                    Some(Str("Security error: command must be a list, not a string"))))]
    ELSE [ran |-> <<command.tokens>>,
          ret |->
            IF outcome.kind = "completed"
            THEN Returned(CommandResult(outcome.returncode = 0, outcome.stdout,
                            outcome.stderr, outcome.returncode,
                            IF outcome.returncode # 0 THEN Some(outcome.stderr) ELSE None))
            ELSE IF outcome.kind = "TimeoutExpired"
            THEN Returned(CommandResult(FALSE, <<>>, <<>>, -1,
                            Some(TimeoutMessage(timeout_seconds))))
            ELSE IF outcome.kind = "FileNotFoundError"
            THEN Returned(CommandResult(FALSE, <<>>, <<>>, -1,
                            Some(Str("kubectl not found."))))
            ELSE Returned(CommandResult(FALSE, <<>>, <<>>, -1,
                            Some(<<"Unexpected error: ", outcome.kind, ": ",
                                   outcome.message>>)))]

-----------------------------------------------------------------------------
(* The tool provider: input models *)

\* str.strip() on a string whose whitespace is the token SP
RECURSIVE LStrip(_)
LStrip(s) == IF s # <<>> /\ Head(s) = SP THEN LStrip(Tail(s)) ELSE s
RECURSIVE RStrip(_)
RStrip(s) == IF s # <<>> /\ s[Len(s)] = SP THEN RStrip(SubSeq(s, 1, Len(s) - 1)) ELSE s
Strip(s) == RStrip(LStrip(s))

\* An argument object maps the field names it has to None (null) or <<string>>.
\* An Optional[str] field with default None, under str_strip_whitespace.
OptionalStr(args, field) ==
    IF field \in DOMAIN args /\ args[field] # None
    THEN Some(Strip(args[field][1]))
    ELSE None

\* A required str field with min_length = 1, checked after stripping.
RequiredStrOk(args, field) ==
    /\ field \in DOMAIN args
    /\ args[field] # None
    /\ Len(Strip(args[field][1])) >= 1

GetFields == {"resource", "namespace", "selector", "output_format"}
DescribeFields == {"resource_type", "name", "namespace", "selector"}

\* A get input model that ignores unknown fields (extra = 'ignore').
KubectlGetInputIgnoresExtra(args) ==
    IF ~RequiredStrOk(args, "resource") THEN None
    ELSE Some([resource |-> Strip(args.resource[1]),
               namespace |-> OptionalStr(args, "namespace"),
               selector |-> OptionalStr(args, "selector"),
               output_format |-> OptionalStr(args, "output_format")])

\* KubectlGetInput(**args): None when validation rejects (extra = 'forbid',
\* resource missing or empty), else <<the validated model>>.
KubectlGetInput(args) ==
    IF ~(DOMAIN args \subseteq GetFields) THEN None
    ELSE IF ~RequiredStrOk(args, "resource") THEN None
    ELSE Some([resource |-> Strip(args.resource[1]),
               namespace |-> OptionalStr(args, "namespace"),
               selector |-> OptionalStr(args, "selector"),
               output_format |-> OptionalStr(args, "output_format")])

\* KubectlDescribeInput(**args)
KubectlDescribeInput(args) ==
    IF ~(DOMAIN args \subseteq DescribeFields) THEN None
    ELSE IF ~RequiredStrOk(args, "resource_type") THEN None
    ELSE Some([resource_type |-> Strip(args.resource_type[1]),
               name |-> OptionalStr(args, "name"),
               namespace |-> OptionalStr(args, "namespace"),
               selector |-> OptionalStr(args, "selector")])

\* A test for `is not None` in place of the truth value of the field.
TruthyNotNone(opt) == opt # None

\* `if params.field:` is false for None and for the empty string.
Truthy(opt) == opt # None /\ opt[1] # <<>>

-----------------------------------------------------------------------------
(* The tool provider: the three tools *)

\* line 153
ApiResourcesCommand == <<Str("kubectl"), Str("api-resources"), Str("-o"), Str("json")>>

\* A get command whose verb position is filled from the caller's input.
GetCommandVerbFromInput(params) ==
    <<Str("kubectl"), params.resource>>
    \o (IF Truthy(params.namespace) THEN <<Str("-n"), params.namespace[1]>> ELSE <<>>)
    \o (IF Truthy(params.output_format)
        THEN <<Str("-o"), params.output_format[1]>> ELSE <<>>)
    \o (IF Truthy(params.selector)
        THEN <<Str("--selector"), params.selector[1]>> ELSE <<>>)

\* A get command that appends the selector before the output format.
GetCommandSelectorFirst(params) ==
    <<Str("kubectl"), Str("get"), params.resource>>
    \o (IF Truthy(params.namespace) THEN <<Str("-n"), params.namespace[1]>> ELSE <<>>)
    \o (IF Truthy(params.selector)
        THEN <<Str("--selector"), params.selector[1]>> ELSE <<>>)
    \o (IF Truthy(params.output_format)
        THEN <<Str("-o"), params.output_format[1]>> ELSE <<>>)

\* lines 179-185
GetCommand(params) ==
    <<Str("kubectl"), Str("get"), params.resource>>
    \o (IF Truthy(params.namespace) THEN <<Str("-n"), params.namespace[1]>> ELSE <<>>)
    \o (IF Truthy(params.output_format)
        THEN <<Str("-o"), params.output_format[1]>> ELSE <<>>)
    \o (IF Truthy(params.selector)
        THEN <<Str("--selector"), params.selector[1]>> ELSE <<>>)

\* lines 215-222
DescribeCommand(params) ==
    <<Str("kubectl"), Str("describe"), params.resource_type>>
    \o (IF Truthy(params.name) THEN <<params.name[1]>> ELSE <<>>)
    \o (IF Truthy(params.namespace) THEN <<Str("-n"), params.namespace[1]>> ELSE <<>>)
    \o (IF Truthy(params.selector)
        THEN <<Str("--selector"), params.selector[1]>> ELSE <<>>)

\* f"{value}" of an Optional[str]
FormatOpt(opt) == IF opt = None THEN Str("None") ELSE opt[1]

\* The end of each handler: "Error: <message>" unless the cmd_result is a success.
HandlerReturn(ret) ==
    IF ret.raised THEN Raised
    ELSE IF ~ret.value.success
    THEN Returned(Str("Error: ") \o FormatOpt(ret.value.error_message))
    ELSE Returned(ret.value.stdout)

\* The request was refused by the validation of the tool's argument model.
Rejected == [raised |-> TRUE, rejected |-> TRUE]

\* A handler runs `command` through the helper with the default timeout.
RunAndReturn(command, outcome) ==
    LET h == run_command_helper(ListCommand(command), DefaultTimeout, outcome) IN
    /\ proc' = IF h.ran # <<>> THEN Some(outcome) ELSE None
    /\ executed' = h.ran
    /\ cmd_result' = Some(h.ret)
    /\ tool_reply' = Some(HandlerReturn(h.ret))

Refuse ==
    /\ tool_reply' = Some(Rejected)
    /\ UNCHANGED <<proc, executed, cmd_result>>

StdOuts == {<<>>, Str("NAME STATUS")}
StdErrs == {<<>>, Str("error: the server doesn't have a resource type")}
Outcomes ==
    {Completed(rc, out, err) : rc \in {0, 1}, out \in StdOuts, err \in StdErrs}
    \cup {TimeoutExpired, FileNotFound, OtherError}

get_all_api_resources ==
    /\ request # None /\ tool_reply = None
    /\ request[1].tool = "kubectl_get_api_resources"
    /\ \E outcome \in Outcomes : RunAndReturn(ApiResourcesCommand, outcome)
    /\ UNCHANGED request
    /\ UNCHANGED cvars
    /\ UNCHANGED mvars
    /\ UNCHANGED fvars
    /\ UNCHANGED dvars

kubectl_get_resource ==
    /\ request # None /\ tool_reply = None
    /\ request[1].tool = "kubectl_get_resource"
    /\ LET params == KubectlGetInput(request[1].args) IN
       IF params = None THEN Refuse
       ELSE \E outcome \in Outcomes : RunAndReturn(GetCommand(params[1]), outcome)
    /\ UNCHANGED request
    /\ UNCHANGED cvars
    /\ UNCHANGED mvars
    /\ UNCHANGED fvars
    /\ UNCHANGED dvars

kubectl_describe_resource ==
    /\ request # None /\ tool_reply = None
    /\ request[1].tool = "kubectl_describe_resource"
    /\ LET params == KubectlDescribeInput(request[1].args) IN
       IF params = None THEN Refuse
       ELSE \E outcome \in Outcomes : RunAndReturn(DescribeCommand(params[1]), outcome)
    /\ UNCHANGED request
    /\ UNCHANGED cvars
    /\ UNCHANGED mvars
    /\ UNCHANGED fvars
    /\ UNCHANGED dvars

\* run_command_helper called on its own, with any command and timeout
RunCommandHelper ==
    /\ request # None /\ tool_reply = None
    /\ request[1].tool = "run_command_helper"
    /\ \E outcome \in Outcomes :
          LET h == run_command_helper(request[1].args.command,
                                      request[1].args.timeout_seconds, outcome) IN
          /\ proc' = IF h.ran # <<>> THEN Some(outcome) ELSE None
          /\ executed' = h.ran
          /\ cmd_result' = Some(h.ret)
          /\ tool_reply' = Some(h.ret)
    /\ UNCHANGED request
    /\ UNCHANGED cvars
    /\ UNCHANGED mvars
    /\ UNCHANGED fvars
    /\ UNCHANGED dvars

\* Argument objects: every subset of the fields, each with one of its values.
Restrict(f, D) == [k \in D |-> f[k]]

Blank == <<SP>>
GetArgs ==
    {Restrict(full, D) :
        full \in [resource : {None, Some(<<>>), Some(Blank), Some(<<SP, "pods", SP>>),
                              Some(<<"delete">>)},
                  namespace : {None, Some(Blank), Some(<<"kube-system", SP>>)},
                  selector : {Some(<<>>), Some(<<"app=web">>)},
                  output_format : {None, Some(<<"json">>)},
                  flags : {Some(<<"--all-namespaces">>)}],
        D \in SUBSET (GetFields \cup {"flags"})}

DescribeArgs ==
    {Restrict(full, D) :
        full \in [resource_type : {None, Some(Blank), Some(<<"deployment">>)},
                  name : {None, Some(<<>>), Some(<<SP, "web-1">>), Some(<<"apply">>)},
                  namespace : {Some(Blank), Some(<<"default">>)},
                  selector : {None, Some(<<"app=web">>)},
                  output_format : {Some(<<"yaml">>)}],
        D \in SUBSET (DescribeFields \cup {"output_format"})}

HelperArgs ==
    [command : {ListCommand(<<Str("kubectl"), Str("get"), Str("pods")>>),
                ListCommand(<<Str("kubectl"), Str("version")>>),
                StrCommand(<<"kubectl", SP, "get", SP, "pods">>)},
     timeout_seconds : {DefaultTimeout, 5}]

Requests ==
    {[tool |-> "kubectl_get_api_resources", args |-> <<>>]}
    \cup {[tool |-> "kubectl_get_resource", args |-> a] : a \in GetArgs}
    \cup {[tool |-> "kubectl_describe_resource", args |-> a] : a \in DescribeArgs}
    \cup {[tool |-> "run_command_helper", args |-> a] : a \in HelperArgs}

InitProvider ==
    /\ ClientInit
    /\ MainLocals("idle")
    /\ FormatIdle
    /\ request \in {Some(r) : r \in Requests}
    /\ proc = None
    /\ executed = <<>>
    /\ cmd_result = None
    /\ tool_reply = None
    /\ DiscoveryIdle

NextProvider ==
    \/ get_all_api_resources
    \/ kubectl_get_resource
    \/ kubectl_describe_resource
    \/ RunCommandHelper

SpecProvider == InitProvider /\ [][NextProvider]_vars


-----------------------------------------------------------------------------
(* Claims *)

SessionOps == {"refresh_tools", "call_tool"}

\* C1: while no connect_to_server call has completed successfully, refresh_tools
\* and call_tool raise "Not connected to a server" and send nothing to the
\* provider.
C1_NotConnectedUntilConnectSucceeds ==
    (~everConnected /\ lastOp.op \in SessionOps)
        => (lastOp.outcome = "NotConnected" /\ lastOp.sent = <<>>)

\* C2: the connection follows Unconnected -> Connected -> Unconnected: the
\* session handle is present only after a connect that succeeded, refresh_tools
\* and call_tool are permitted exactly while Connected, and close leads to
\* Unconnected, where they fail until another connect succeeds.
C2_Lifecycle ==
    /\ (session # None => connState = "Connected")
    /\ (lastOp.op \in SessionOps =>
            (lastOp.outcome # "NotConnected" <=> connState = "Connected"))
    /\ (lastOp.op = "close" => connState = "Unconnected" /\ session = None)

\* C3: every way out of main's scoped client block runs close, after which
\* nothing the client acquired is still held, the session handle is absent and
\* the tool cache is empty.
C3_CloseOnEveryExit ==
    /\ (pc = "done" =>
            /\ closeRuns = 1
            /\ live = {}
            /\ exit_stack = <<>>
            /\ session = None
            /\ tools = <<>>)
    /\ (pc \notin {"exit", "done"} => exc = None)

C3_Witness ==
    /\ pc = "done"
    /\ exc = Some("call_tool")
    /\ lastOp.released = <<SessionResource(1), StdioResource(1)>>

\* C4: after a close the session handle is absent and the tool cache is empty,
\* and a further close succeeds and leaves the client's state as it was,
\* whether or not the client was ever connected.
C4_CloseIdempotent ==
    /\ [](lastOp.op = "close" =>
            (lastOp.outcome = "ok" /\ session = None /\ tools = <<>>))
    /\ [][(lastOp.op = "close" /\ lastOp'.op = "close") =>
            (/\ lastOp'.outcome = "ok"
             /\ session' = session
             /\ tools' = tools
             /\ exit_stack' = exit_stack
             /\ live' = live)]_vars

C4_Witness ==
    /\ lastOp.op = "close"
    /\ lastOp.released = <<>>
    /\ everConnected
    /\ session = None
    /\ tools = <<>>

\* C5: when the chat response carries exactly one tool-call request, main
\* forwards exactly one tools/call with that name and those arguments, prints
\* the text of its result when the call returns one, and sends one chat
\* request in the whole run, never a second one.
C5_OneCallOneChat ==
    /\ Len(chatLog) <= 1
    /\ (pc = "done" /\ Len(RequestedCalls) = 1) =>
           LET call == RequestedCalls[1].function IN
           /\ Len(chatLog) = 1
           /\ callLog = <<CallToolRequest(call.name, call.arguments)>>
           /\ exc \in {None, Some("call_tool")}
           /\ exc = None =>
                  /\ Len(resultLog) = 1
                  /\ printed = << <<"Tool ", call.name, " result:", NL>>
                                  \o JoinNL(ContentParts(resultLog[1])) >>
           /\ exc # None => (resultLog = <<>> /\ printed = <<>>)

C5_Witness ==
    /\ pc = "done"
    /\ exc = None
    /\ Len(RequestedCalls) = 1
    /\ RequestedCalls[1].function.arguments = "{}"
    /\ \E i \in 1..Len(openai_tools) :
          openai_tools[i].function.name = RequestedCalls[1].function.name
    /\ printed = << <<"Tool ", "kubectl_describe_resource", " result:", NL, "a">> >>

\* The text payloads of a result content, in order (stated with SelectSeq,
\* not with the loop of call_tool).
HasText(block) == "text" \in DOMAIN block
TextPayloads(content) ==
    LET kept == SelectSeq(content, HasText) IN [i \in 1..Len(kept) |-> kept[i].text]

\* The pieces of a string between its newlines.
RECURSIVE SplitNL(_, _)
SplitNL(str, piece) ==
    IF str = <<>> THEN <<piece>>
    ELSE IF Head(str) = NL THEN <<piece>> \o SplitNL(Tail(str), <<>>)
    ELSE SplitNL(Tail(str), Append(piece, Head(str)))

\* C6: while connected, call_tool returns the text payloads of the blocks that
\* carry one, in order, separated by single newlines: the empty string when no
\* block carries text, and "a\nb" for the two text blocks "a" and "b".
C6_TextJoinedByNewlines ==
    (lastOp.op = "call_tool" /\ lastOp.outcome = "ok") =>
        LET payloads == TextPayloads(lastOp.content) IN
        /\ payloads = <<>> => lastOp.ret = <<>>
        /\ payloads # <<>> => SplitNL(lastOp.ret, <<>>) = payloads
        /\ lastOp.content = <<TextContent(<<"a">>), TextContent(<<"b">>)>>
               => lastOp.ret = <<"a", NL, "b">>

C6_Witness ==
    /\ connState = "Connected"
    /\ lastOp.op = "call_tool"
    /\ lastOp.content = <<TextContent(<<"a">>), ImageContent, TextContent(<<"b">>)>>
    /\ lastOp.ret = <<"a", NL, "b">>

\* The descriptors of a list whose conversion succeeds, converted, in order.
Convertible(tool) == ToolAttrs \subseteq DOMAIN tool
ConvertedOf(list) ==
    LET kept == SelectSeq(list, Convertible) IN
    [i \in 1..Len(kept) |->
        [type |-> "function",
         function |-> [name |-> kept[i].name,
                       description |-> IF kept[i].description = None
                                       THEN Some("") ELSE kept[i].description,
                       parameters |-> kept[i].inputSchema]]]

\* C7: get_openai_tools / format_tools never raises, whatever entries fail to
\* convert: it returns the entries that converted, in order, and logs the others.
C7_FailingToolsSkipped ==
    formatted # None =>
        /\ ~formatted[1].raised
        /\ formatted[1].value = ConvertedOf(mcp_tools)
        /\ Len(formatted[1].errors) = Len(mcp_tools) - Len(ConvertedOf(mcp_tools))

\* C8: for N convertible descriptors get_openai_tools returns N entries in the
\* same order, each {type: "function", function: {name, description,
\* parameters}} with the name and the input schema copied and the description
\* copied, or "" (never absent) when the descriptor has none.
C8_ChatToolShape ==
    (formatted # None /\ \A i \in 1..Len(mcp_tools) : mcp_tools[i] \in MCPTools) =>
        /\ ~formatted[1].raised
        /\ Len(formatted[1].value) = Len(mcp_tools)
        /\ \A i \in 1..Len(mcp_tools) :
              LET out == formatted[1].value[i]
                  in == mcp_tools[i] IN
              /\ DOMAIN out = {"type", "function"}
              /\ out.type = "function"
              /\ DOMAIN out.function = {"name", "description", "parameters"}
              /\ out.function.name = in.name
              /\ out.function.parameters = in.inputSchema
              /\ out.function.description # None
              /\ out.function.description =
                     IF in.description = None THEN Some("") ELSE in.description

C8_Witness ==
    /\ formatted # None
    /\ mcp_tools = <<GetTool(Some("Display resources")), DescribeTool, GetTool(None)>>
    /\ Len(formatted[1].value) = 3
    /\ formatted[1].value[2].function.description = Some("")

\* C9: when the chat request fails, chat_with_tool returns an absent result and
\* no error reaches main, which makes no call_tool, prints "No response" and
\* still closes the connection.
C9_ChatFailureSuppressed ==
    (Len(chatLog) >= 1 /\ chatLog[1].reply.raised) =>
        /\ response = None
        /\ exc = None
        /\ callLog = <<>>
        /\ pc \in {"branch", "exit", "done"}
        /\ pc \in {"exit", "done"} => printed = << <<"No response">> >>
        /\ pc = "done" => (closeRuns = 1 /\ live = {} /\ session = None)

C9_Witness ==
    /\ pc = "done"
    /\ Len(chatLog) = 1
    /\ chatLog[1].reply.raised
    /\ printed = << <<"No response">> >>
    /\ lastOp.op = "close"
    /\ lastOp.released # <<>>

\* C10: command execution always returns a CommandResult, never raises, for
\* exit code 0, a non-zero exit, a timeout, a missing binary, any other
\* exception and a string-form command (refused with return code -1, nothing
\* executed); success is true exactly when the exit code is 0; and each tool
\* handler returns the standard output on success and "Error: " followed by
\* the error message otherwise.
C10_AlwaysCommandResult ==
    cmd_result # None =>
        /\ ~cmd_result[1].raised
        /\ LET r == cmd_result[1].value
               tool == request[1].tool IN
           /\ DOMAIN r = {"success", "stdout", "stderr", "return_code", "error_message"}
           /\ r.success \in BOOLEAN
           /\ r.success <=> (r.return_code = 0)
           /\ ~r.success => r.error_message # None
           /\ proc = None =>
                  /\ tool = "run_command_helper"
                  /\ request[1].args.command.kind = "str"
                  /\ executed = <<>>
                  /\ r.return_code = -1
           /\ proc # None =>
                  /\ Len(executed) = 1
                  /\ IF proc[1].kind = "completed"
                     THEN /\ r.return_code = proc[1].returncode
                          /\ r.stdout = proc[1].stdout
                          /\ r.stderr = proc[1].stderr
                     ELSE /\ r.return_code = -1
                          /\ r.stdout = <<>>
                          /\ r.stderr = <<>>
           /\ tool # "run_command_helper" =>
                  tool_reply = Some(IF proc[1].kind = "completed" /\ proc[1].returncode = 0
                                    THEN Returned(proc[1].stdout)
                                    ELSE Returned(<<"Error: ">> \o r.error_message[1]))

C10_Witness ==
    /\ tool_reply # None
    /\ request[1].tool = "kubectl_get_resource"
    /\ proc # None
    /\ proc[1].kind = "completed"
    /\ proc[1].returncode = 1
    /\ tool_reply[1] = Returned(<<"Error: ", "error: the server doesn't have a resource type">>)

\* The string `part` occurs in the string `str`.
Contains(str, part) ==
    \E i \in 1..Len(str) : <<str[i]>> = part

\* The timeout the command of the request runs under: the one given to
\* run_command_helper, the default for the three tools.
ConfiguredTimeout ==
    IF request[1].tool = "run_command_helper"
    THEN request[1].args.timeout_seconds
    ELSE DefaultTimeout

\* C11: a command that exceeds the configured timeout (30 seconds by default)
\* yields a CommandResult with success false, return code -1, empty stdout and
\* stderr and an error message that contains the configured timeout; the tool
\* handler then returns an "Error: ..." string.
C11_TimeoutIsStructuredFailure ==
    (proc # None /\ proc[1].kind = "TimeoutExpired") =>
        /\ cmd_result # None
        /\ ~cmd_result[1].raised
        /\ LET r == cmd_result[1].value IN
           /\ r.success = FALSE
           /\ r.return_code = -1
           /\ r.stdout = <<>>
           /\ r.stderr = <<>>
           /\ r.error_message # None
           /\ Contains(r.error_message[1], Str(ToString(ConfiguredTimeout)))
           /\ request[1].tool # "run_command_helper" =>
                  /\ ConfiguredTimeout = 30
                  /\ ~tool_reply[1].raised
                  /\ Head(tool_reply[1].value) = "Error: "
                  /\ Contains(tool_reply[1].value, Str("30"))

C11_Witness ==
    /\ proc # None
    /\ proc[1].kind = "TimeoutExpired"
    /\ request[1].tool = "run_command_helper"
    /\ request[1].args.timeout_seconds = 5
    /\ cmd_result[1].value.error_message =
           Some(<<"Command timed out after ", "5", " seconds">>)

\* The value a field of the request's argument object has after trimming, and
\* whether the field is set: supplied, not null and not empty once trimmed.
FieldValue(field) == Strip(request[1].args[field][1])
FieldSet(field) ==
    /\ field \in DOMAIN request[1].args
    /\ request[1].args[field] # None
    /\ FieldValue(field) # <<>>
FlagPair(flag, field) ==
    IF FieldSet(field) THEN <<Str(flag), FieldValue(field)>> ELSE <<>>

\* The handler of the request ran: validation accepted its argument object.
Accepted == tool_reply # None /\ tool_reply[1] # Rejected

\* C12: for every accepted KubectlGetInput the command is ['kubectl', 'get',
\* resource] followed by '-n' namespace, '-o' output_format and '--selector'
\* selector, in that order, each pair present exactly when its field is set:
\* nothing is appended when only resource is set, all three when all are.
C12_GetCommandShape ==
    (request # None /\ request[1].tool = "kubectl_get_resource" /\ Accepted) =>
        /\ Len(executed) = 1
        /\ executed[1] = <<Str("kubectl"), Str("get"), FieldValue("resource")>>
                         \o FlagPair("-n", "namespace")
                         \o FlagPair("-o", "output_format")
                         \o FlagPair("--selector", "selector")
        /\ DOMAIN request[1].args = {"resource"} => Len(executed[1]) = 3
        /\ (FieldSet("namespace") /\ FieldSet("output_format") /\ FieldSet("selector"))
               => Len(executed[1]) = 9

C12_Witness ==
    /\ request # None
    /\ request[1].tool = "kubectl_get_resource"
    /\ Accepted
    /\ executed = << <<Str("kubectl"), Str("get"), Str("pods"),
                       Str("-n"), Str("kube-system"), Str("-o"), Str("json"),
                       Str("--selector"), Str("app=web")>> >>

ToolVerb ==
    [kubectl_get_api_resources |-> Str("api-resources"),
     kubectl_get_resource |-> Str("get"),
     kubectl_describe_resource |-> Str("describe")]

\* The strings the caller supplied in the request, trimmed.
CallerStrings ==
    {Strip(request[1].args[f][1]) :
        f \in {g \in DOMAIN request[1].args : request[1].args[g] # None}}

\* C13: every command a tool executes is a list of tokens that starts with
\* 'kubectl' and one of the read-only verbs 'api-resources', 'get', 'describe'
\* (the verb of the tool called); strings of the caller only occupy the later
\* positions, so that no create/apply/delete command is reachable.
C13_ReadOnlyVerbs ==
    (request # None /\ request[1].tool \in DOMAIN ToolVerb) =>
        \A i \in 1..Len(executed) :
            LET command == executed[i] IN
            /\ Len(command) >= 2
            /\ command[1] = Str("kubectl")
            /\ command[2] = ToolVerb[request[1].tool]
            /\ command[2] \notin {Str("create"), Str("apply"), Str("delete")}
            /\ \A j \in 3..Len(command) :
                  \/ command[j] \in CallerStrings
                  \/ command[j] \in {Str("-n"), Str("-o"), Str("--selector"), Str("json")}

C13_Witness ==
    /\ request # None
    /\ request[1].tool = "kubectl_get_resource"
    /\ Len(executed) = 1
    /\ executed[1][1] = Str("kubectl")
    /\ executed[1][2] = Str("get")
    /\ executed[1][3] = Str("delete")

\* The declared fields of the input model of each validating tool, and its
\* required field.
Declared ==
    [kubectl_get_resource |-> {"resource", "namespace", "selector", "output_format"},
     kubectl_describe_resource |-> {"resource_type", "name", "namespace", "selector"}]
Required ==
    [kubectl_get_resource |-> "resource", kubectl_describe_resource |-> "resource_type"]

\* The argument object of the request is one that validation must refuse.
Malformed ==
    LET args == request[1].args
        tool == request[1].tool IN
    \/ \E f \in DOMAIN args : f \notin Declared[tool]
    \/ Required[tool] \notin DOMAIN args
    \/ args[Required[tool]] = None
    \/ \A i \in 1..Len(args[Required[tool]][1]) : args[Required[tool]][1][i] = SP

\* C14: a get or describe request whose argument object has a field outside the
\* declared set, or whose required resource type is missing or empty after
\* trimming, is rejected by validation and no kubectl command is executed.
C14_MalformedRejected ==
    (request # None /\ request[1].tool \in DOMAIN Declared /\ tool_reply # None) =>
        /\ Malformed => (tool_reply[1] = Rejected /\ executed = <<>> /\ proc = None)
        /\ ~Malformed => (tool_reply[1] # Rejected /\ Len(executed) = 1)

C14_Witness ==
    /\ request # None
    /\ request[1].tool = "kubectl_get_resource"
    /\ DOMAIN request[1].args = {"resource", "flags"}
    /\ request[1].args.resource = Some(<<SP, "pods", SP>>)
    /\ tool_reply = Some(Rejected)
    /\ executed = <<>>

CommandFlags == {Str("-n"), Str("-o"), Str("--selector")}
FlagFields ==
    [kubectl_get_resource |-> {"namespace", "output_format", "selector"},
     kubectl_describe_resource |-> {"namespace", "selector"}]
PositionalFields ==
    [kubectl_get_resource |-> {}, kubectl_describe_resource |-> {"name"}]

\* C19: in kubectl_get_resource and kubectl_describe_resource an optional field
\* that is empty after trimming counts as not supplied: it adds no flag and no
\* token, so the command holds no empty token and no flag without its value.
C19_BlankOptionalOmitted ==
    (request # None /\ request[1].tool \in DOMAIN FlagFields /\ Accepted) =>
        LET command == executed[1]
            tool == request[1].tool IN
        /\ \A j \in 1..Len(command) : command[j] # <<>>
        /\ \A j \in 1..Len(command) :
              command[j] \in CommandFlags =>
                  /\ j < Len(command)
                  /\ command[j + 1] # <<>>
        /\ Len(command) = 3 + 2 * Cardinality({f \in FlagFields[tool] : FieldSet(f)})
                            + Cardinality({f \in PositionalFields[tool] : FieldSet(f)})

C19_Witness ==
    /\ request # None
    /\ request[1].tool = "kubectl_describe_resource"
    /\ Accepted
    /\ "name" \in DOMAIN request[1].args
    /\ request[1].args.name = Some(<<>>)
    /\ "namespace" \in DOMAIN request[1].args
    /\ request[1].args.namespace = Some(Blank)
    /\ executed = << <<Str("kubectl"), Str("describe"), Str("deployment")>> >>

\* C15: when the tool-listing request fails, discovery logs the failure and
\* returns an absent result instead of propagating the error: in refresh_tools,
\* also as the last step of connect_to_server, and in get_kubectl_tools.
C15_ListingFailureAbsorbed ==
    /\ lastOp.op = "refresh_tools" => lastOp.outcome # "raised"
    /\ (lastOp.op = "connect_to_server"
            /\ lastOp.sent = <<InitializeRequest, ListToolsRequest>>)
           => lastOp.outcome # "raised"
    /\ (kubectl_tools # None /\ kubectl_tools[1].fails = "list_tools")
           => kubectl_tools[1].outcome = Returned(None)

\* The place of a resource in the order of acquisition: connects in the order
\* they ran, and within one connect the process and its streams before the
\* protocol session.
AcquisitionRank(res) == 2 * res.id - (IF res.kind = "stdio_client" THEN 1 ELSE 0)

\* C17: whatever operations ran before, several connects without a close and
\* connects that failed part-way included, a close releases every process,
\* stream and session still held from any earlier connect, newest first, and
\* after it nothing acquired is left unreleased.
C17_CloseReleasesEverything ==
    /\ [](lastOp.op = "close" => (live = {} /\ exit_stack = <<>>))
    /\ [][lastOp'.op = "close" =>
            LET released == lastOp'.released IN
            /\ {released[i] : i \in 1..Len(released)} = live
            /\ Len(released) = Cardinality(live)
            /\ \A i \in 1..Len(released) : \A j \in 1..Len(released) :
                  i < j => AcquisitionRank(released[i]) > AcquisitionRank(released[j])]_vars

C17_Witness ==
    /\ lastOp.op = "close"
    /\ lastOp.released = <<SessionResource(2), StdioResource(2),
                           SessionResource(1), StdioResource(1)>>
    /\ ~everConnected
    /\ live = {}

\* C18: between operations a non-empty tool cache implies a present session
\* handle.
C18_ToolsImplySession == tools # <<>> => session # None

C18_Witness ==
    /\ lastOp.op = "refresh_tools"
    /\ lastOp.outcome = "ok"
    /\ tools # <<>>
    /\ session # None

\* The tools/call request of the i-th call the chat response lists.
RequestOf(i) ==
    CallToolRequest(RequestedCalls[i].function.name, RequestedCalls[i].function.arguments)

\* C16: when a chat response requests k >= 1 tool calls, main sends them one at
\* a time in the listed order: at most one request is outstanding, a request is
\* sent only after every earlier one has returned and been printed, exactly k
\* are sent when all return, and none is sent after one that raised.
C16_OneCallAtATime ==
    LET k == Len(RequestedCalls) IN
    /\ Len(inflight) <= 1
    /\ Len(callLog) <= k
    /\ \A i \in 1..Len(callLog) : callLog[i] = RequestOf(i)
    /\ inflight # <<>> =>
          /\ pc = "await"
          /\ inflight = <<callLog[Len(callLog)]>>
          /\ Len(resultLog) = Len(callLog) - 1
          /\ Len(printed) = Len(callLog) - 1
    /\ (inflight = <<>> /\ exc # Some("call_tool") /\ k >= 1) =>
          /\ Len(resultLog) = Len(callLog)
          /\ Len(printed) = Len(callLog)
    /\ (pc = "done" /\ exc = None /\ k >= 1) => Len(callLog) = k
    /\ exc = Some("call_tool") =>
          /\ inflight = <<>>
          /\ pc \in {"exit", "done"}
          /\ Len(callLog) = Len(resultLog) + 1
          /\ Len(printed) = Len(resultLog)

C16_Witness ==
    /\ pc = "await"
    /\ Len(RequestedCalls) = 2
    /\ inflight = <<RequestOf(2)>>
    /\ callLog = <<RequestOf(1), RequestOf(2)>>
    /\ Len(printed) = 1

====
